---------------------------- MODULE Spec2Model ----------------------------
(***************************************************************************)
(* Model of the two MCP example programs of the repository:                *)
(*   - the weather tool server (app.ts: formatAlert, makeNWSRequest and    *)
(*     the get-alerts handler);                                            *)
(*   - the chat client (main.ts, chat-loop.ts, client.ts).                 *)
(*                                                                         *)
(* Strings that the code inspects character by character (the state code,  *)
(* a line read from stdin, the server script path) are sequences of        *)
(* one-character strings; Str turns one into a TLA+ string when the code   *)
(* interpolates it into a message.  A multi-line text built with           *)
(* join("\n") in the weather server is the sequence of its lines.          *)
(*                                                                         *)
(* Each process is a single JavaScript event loop: an action is one        *)
(* continuation, from the settling of an awaited promise to the next       *)
(* await.                                                                  *)
(***************************************************************************)
EXTENDS Integers, Sequences, FiniteSets, TLC

VARIABLES
    \* ---- weather server: one get-alerts invocation at a time
    hPc,          \* "idle" | "fetching" | "returned" | "threw"
    hState,       \* the handler's `state` argument (characters)
    hUrl,         \* the URL handed to fetch
    hFetches,     \* HTTP requests attempted by the current invocation
    hLogged,      \* console.error calls of makeNWSRequest in the invocation
    hOutcome,     \* what the remote call did (kept for the properties)
    hResult,      \* the value the handler returned: [content |-> <<...>>]
    \* ---- client process: environment
    apiKeySet,    \* process.env.ANTHROPIC_API_KEY is set
    hasArg,       \* process.argv.length >= 3
    scriptPath,   \* process.argv[2] (characters)
    platform,     \* process.platform
    \* ---- client process: main()
    mainPc,       \* position of the module top level / main()
    procState,    \* "running" | "exited"
    exitStatus,   \* status given to process.exit, 0 on a natural exit
    mainErrors,   \* console.error calls of main.ts
    \* ---- ModelContextProtocolClient and the MCP SDK client it wraps
    transport,    \* #transport: [created, command, args]
    mcpConn,      \* "new" | "connecting" | "connected" | "closing" | "closed"
    spawned,      \* the transport has spawned the server subprocess
    mcpCalls,     \* [connect, listTools, close |-> Nat]: SDK calls since start
    tools,        \* #tools
    connectLog,   \* "Failed to connect to MCP server" lines logged
    cleanupErrors,\* "Error during cleanup" lines logged
    finalText,    \* #finalText
    toolResults,  \* #toolResults
    \* ---- one processQuery call
    pqPc,         \* "idle" | "awaitModel" | "awaitTool" | "awaitFollowUp"
                  \* | "returned" | "thrown"
    pqCaller,     \* "chatLoop" | "direct": who awaits the call
    messages,     \* the call's MessageParam list
    contents,     \* content blocks of the first model response
    idx,          \* index of the block being processed
    pqValue,      \* the string the call returned
    llmRequests,  \* anthropic.messages.create calls since start
    callAppended, \* entries pushed on #finalText by the current call
    callTools,    \* MCP tool calls issued by the current call
    callNotices,  \* "[Calling tool ...]" entries pushed by the current call
    callFollowUps,\* follow-up model requests issued by the current call
    callFollowTexts, \* follow-up entries pushed by the current call
    callNested,   \* follow-up responses of the call that began with tool_use
    staleCount,   \* #finalText entries left by earlier calls at the call
    \* ---- chatLoop
    chatPc,       \* "notStarted" | "question" | "inQuery" | "done"
    rlOpen,       \* the readline interface is open
    lines,        \* the lines read from stdin, in order
    queries,      \* the lines handed to processQuery, in order
    printed,      \* responses written to stdout
    chatErrors,   \* console.error calls of chatLoop
    \* ---- a sequential caller of the class (client.ts, @example)
    directCalls,  \* processQuery calls made by the caller
    directFailed  \* how many of them threw

serverVars == <<hPc, hState, hUrl, hFetches, hLogged, hOutcome, hResult>>
envVars    == <<apiKeySet, hasArg, scriptPath, platform>>
mainVars   == <<mainPc, procState, exitStatus, mainErrors>>
connVars   == <<transport, mcpConn, spawned, tools, connectLog,
                cleanupErrors>>
pqVars     == <<pqPc, pqCaller, messages, contents, idx, pqValue, llmRequests,
                callAppended, callTools, callNotices, callFollowUps,
                callFollowTexts, callNested, staleCount, finalText,
                toolResults>>
chatVars   == <<chatPc, rlOpen, lines, queries, printed, chatErrors>>
directVars == <<directCalls, directFailed>>
clientVars == <<envVars, mainVars, connVars, mcpCalls, pqVars, chatVars,
                directVars>>
vars       == <<serverVars, clientVars>>

----------------------------------------------------------------------------
(* Bounds of the model *)

\* longest features list of a weather response
MaxFeatures == 2
\* most content blocks in one model response
MaxBlocks == 2
\* most content blocks in a follow-up model response (the code reads the
\* first)
MaxFollowUpBlocks == 1
\* most lines the chat loop reads from stdin
MaxLines == 2
\* most processQuery calls of the sequential caller
MaxCalls == 2

----------------------------------------------------------------------------
(* Strings *)

Absent == "<undefined>"

LowerLetters == <<"a", "c", "h", "i", "j", "n", "p", "q", "s", "t", "u", "y">>
UpperLetters == <<"A", "C", "H", "I", "J", "N", "P", "Q", "S", "T", "U", "Y">>

\* String.prototype.toUpperCase on one character
UpperChar(c) ==
    IF \E i \in DOMAIN LowerLetters : LowerLetters[i] = c
    THEN UpperLetters[CHOOSE i \in DOMAIN LowerLetters : LowerLetters[i] = c]
    ELSE c

\* String.prototype.toLowerCase on one character
LowerChar(c) ==
    IF \E i \in DOMAIN UpperLetters : UpperLetters[i] = c
    THEN LowerLetters[CHOOSE i \in DOMAIN UpperLetters : UpperLetters[i] = c]
    ELSE c

\* the state code used as it was given
toUpperCase_AsGiven(s) == s

toUpperCase(s) == [i \in DOMAIN s |-> UpperChar(s[i])]
toLowerCase(s) == [i \in DOMAIN s |-> LowerChar(s[i])]

\* String.prototype.endsWith
endsWith(s, suffix) ==
    /\ Len(s) >= Len(suffix)
    /\ SubSeq(s, Len(s) - Len(suffix) + 1, Len(s)) = suffix

\* the characters of s as one string
RECURSIVE Str(_)
Str(s) == IF s = <<>> THEN "" ELSE Head(s) \o Str(Tail(s))

\* Array.prototype.join("\n") on strings
RECURSIVE JoinNL(_)
JoinNL(parts) ==
    IF parts = <<>> THEN ""
    ELSE IF Len(parts) = 1 THEN parts[1]
    ELSE parts[1] \o "\n" \o JoinNL(Tail(parts))

\* join("\n") on multi-line texts, each the sequence of its lines
RECURSIVE JoinLines(_)
JoinLines(texts) ==
    IF texts = <<>> THEN <<>> ELSE Head(texts) \o JoinLines(Tail(texts))

SeqsUpTo(S, n) == UNION {[1..k -> S] : k \in 0..n}


----------------------------------------------------------------------------
(* Weather tool server *)

NWS_API_BASE == "https://api.weather.gov"

\* JavaScript's `value || fallback` on an optional string
OrDefault(value, fallback) ==
    IF value = Absent \/ value = "" THEN fallback ELSE value

\* values an optional property of an alert feature takes
FieldValues == {Absent, "", "Storm"}

AllFeatures ==
    [event : FieldValues, areaDesc : FieldValues, severity : FieldValues,
     status : FieldValues, headline : FieldValues]

FieldNames == {"event", "areaDesc", "severity", "status", "headline"}

\* the features of the responses: every property given, none given, every
\* property empty, and exactly one property absent or empty
AlertFeatures ==
    {f \in AllFeatures :
        \/ \A n \in FieldNames : f[n] = Absent
        \/ \A n \in FieldNames : f[n] = ""
        \/ Cardinality({n \in FieldNames : f[n] # "Storm"}) <= 1}

\* HTTP statuses of the responses; Response.ok is 200..299
Statuses == {199, 200, 204, 300, 404, 500}
ResponseOk(status) == status >= 200 /\ status <= 299

\* what the remote call does: fetch rejects, or resolves with a response
\* whose body is not JSON, is the JSON value null, or is an object with or
\* without a features list
Outcomes ==
    {[kind |-> "networkError", status |-> 0, json |-> "none",
      hasFeatures |-> FALSE, features |-> <<>>]}
    \cup {[kind |-> "response", status |-> s, json |-> "object",
           hasFeatures |-> FALSE, features |-> <<>>] :
            s \in {s \in Statuses : ~ResponseOk(s)}}
    \cup {[kind |-> "response", status |-> s, json |-> j,
           hasFeatures |-> FALSE, features |-> <<>>] :
            s \in {s \in Statuses : ResponseOk(s)},
            j \in {"invalid", "null", "object"}}
    \cup {[kind |-> "response", status |-> s, json |-> "object",
           hasFeatures |-> TRUE, features |-> fs] :
            s \in {s \in Statuses : ResponseOk(s)},
            fs \in SeqsUpTo(AlertFeatures, MaxFeatures)}

NoOutcome ==
    [kind |-> "none", status |-> 0, json |-> "none",
     hasFeatures |-> FALSE, features |-> <<>>]

\* the state arguments: z.string().length(2)
StateArgs ==
    {<<"c", "a">>, <<"C", "A">>, <<"N", "y">>, <<"t", "9">>}

\* formatAlert with "Unknown" for a missing headline too
formatAlert_HeadlineUnknown(feature) ==
    LET props == feature
    IN  << "Event: " \o OrDefault(props.event, "Unknown"),
           "Area: " \o OrDefault(props.areaDesc, "Unknown"),
           "Severity: " \o OrDefault(props.severity, "Unknown"),
           "Status: " \o OrDefault(props.status, "Unknown"),
           "Headline: " \o OrDefault(props.headline, "Unknown"),
           "---" >>

formatAlert(feature) ==
    LET props == feature
    IN  << "Event: " \o OrDefault(props.event, "Unknown"),
           "Area: " \o OrDefault(props.areaDesc, "Unknown"),
           "Severity: " \o OrDefault(props.severity, "Unknown"),
           "Status: " \o OrDefault(props.status, "Unknown"),
           "Headline: " \o OrDefault(props.headline, "No headline"),
           "---" >>

\* makeNWSRequest without its try/catch: a rejected fetch and the Error
\* thrown for a non-2xx status escape
makeNWSRequest_NoCatch(outcome) ==
    IF \/ outcome.kind = "networkError"
       \/ ~ResponseOk(outcome.status)
       \/ outcome.json = "invalid"
    THEN [threw |-> TRUE, isNull |-> TRUE, data |-> NoOutcome, logged |-> 0]
    ELSE [threw |-> FALSE, isNull |-> outcome.json = "null",
          data |-> outcome, logged |-> 0]

\* makeNWSRequest once fetch has settled with `outcome`: whether it throws,
\* whether it returns null, the parsed body otherwise, and what it logs
makeNWSRequest(outcome) ==
    IF \/ outcome.kind = "networkError"
       \/ ~ResponseOk(outcome.status)
       \/ outcome.json = "invalid"
    THEN [threw |-> FALSE, isNull |-> TRUE, data |-> NoOutcome, logged |-> 1]
    ELSE [threw |-> FALSE, isNull |-> outcome.json = "null",
          data |-> outcome, logged |-> 0]

TextContent(textLines) == [content |-> <<[type |-> "text", text |-> textLines]>>]
NoResult == [content |-> <<>>]

\* the get-alerts handler after `await makeNWSRequest(url)`
getAlertsResult(stateCode, request) ==
    IF request.isNull
    THEN TextContent(<<"Failed to fetch alerts for " \o Str(stateCode)
                        \o ". Please try another state.">>)
    ELSE LET features == IF request.data.hasFeatures
                         THEN request.data.features ELSE <<>>
         IN  IF Len(features) = 0
             THEN TextContent(<<"No alerts found for " \o Str(stateCode) \o ".">>)
             ELSE LET formattedAlerts ==
                          [i \in DOMAIN features |-> formatAlert(features[i])]
                  IN  TextContent(<<"Active alerts for " \o Str(stateCode) \o ":",
                                    "">> \o JoinLines(formattedAlerts))

\* the handler is invoked: it builds the URL and makeNWSRequest calls fetch
GetAlertsCall(state) ==
    /\ hPc = "idle"
    /\ LET stateCode == toUpperCase(state)
       IN  hUrl' = NWS_API_BASE \o "/alerts/active?area=" \o Str(stateCode)
    /\ hState' = state
    /\ hFetches' = 1
    /\ hLogged' = 0
    /\ hOutcome' = NoOutcome
    /\ hResult' = NoResult
    /\ hPc' = "fetching"
    /\ UNCHANGED clientVars

\* fetch settles; makeNWSRequest and then the handler run to their end
FetchSettles(outcome) ==
    /\ hPc = "fetching"
    /\ LET request == makeNWSRequest(outcome)
       IN  /\ hLogged' = hLogged + request.logged
           /\ IF request.threw
              THEN /\ hPc' = "threw"
                   /\ hResult' = NoResult
              ELSE /\ hPc' = "returned"
                   /\ hResult' = getAlertsResult(toUpperCase(hState), request)
    /\ hOutcome' = outcome
    /\ UNCHANGED <<hState, hUrl, hFetches, clientVars>>

\* the MCP server has sent the result; the handler can be invoked again
HandlerDone ==
    /\ hPc \in {"returned", "threw"}
    /\ hPc' = "idle"
    /\ hState' = <<>>
    /\ hUrl' = ""
    /\ hFetches' = 0
    /\ hLogged' = 0
    /\ hOutcome' = NoOutcome
    /\ hResult' = NoResult
    /\ UNCHANGED clientVars

ServerInitVars ==
    /\ hPc = "idle"
    /\ hState = <<>>
    /\ hUrl = ""
    /\ hFetches = 0
    /\ hLogged = 0
    /\ hOutcome = NoOutcome
    /\ hResult = NoResult

----------------------------------------------------------------------------
(* Chat client: ModelContextProtocolClient.connectToServer *)

\* server script paths given on the command line
ScriptPaths ==
    {<<"s", ".", "j", "s">>, <<"s", ".", "p", "y">>, <<"s", ".", "s", "h">>,
     <<"j", "s">>, <<"s", ".", "J", "S">>, <<".", "p", "y", "c">>}

Platforms == {"win32", "linux"}

isValidServerScriptType(serverScriptPath, type) ==
    endsWith(serverScriptPath, type)

\* TRUE when validateServerScript throws
validateServerScript(serverScriptPath) ==
    /\ ~isValidServerScriptType(serverScriptPath, <<".", "p", "y">>)
    /\ ~isValidServerScriptType(serverScriptPath, <<".", "j", "s">>)

getCommandScriptPath(isPy) ==
    IF isPy
    THEN IF platform = "win32" THEN "python" ELSE "python3"
    ELSE "process.execPath"

\* getCommand without the call of validateServerScript
getCommand_NoValidate(serverScriptPath) ==
    [threw |-> FALSE,
     command |-> getCommandScriptPath(
                     isValidServerScriptType(serverScriptPath,
                                             <<".", "p", "y">>))]

\* getCommand: throws, or returns the interpreter
getCommand(serverScriptPath) ==
    IF validateServerScript(serverScriptPath)
    THEN [threw |-> TRUE, command |-> ""]
    ELSE [threw |-> FALSE,
          command |-> getCommandScriptPath(
                          isValidServerScriptType(serverScriptPath,
                                                  <<".", "p", "y">>))]

NoTransport == [created |-> FALSE, command |-> "", args |-> <<>>]

\* tool lists an MCP server answers listTools with (names)
ToolLists == {<<"get-alerts">>}

\* cleanup(): mcp.close() is called and awaited
CleanupCall ==
    /\ mcpCalls' = [mcpCalls EXCEPT !.close = @ + 1]
    /\ mcpConn' = "closing"

\* main() is suspended at an await (or has returned, or is not running at
\* all: "none", the class driven by another caller): only then does the
\* event loop run another continuation
MainSuspended ==
    mainPc \in {"awaitConnect", "awaitListTools", "awaitClose",
                "awaitCloseAfterError", "returned", "none"}

\* a settled processQuery promise whose awaiter has not run yet: promise
\* reactions run before any I/O callback
PendingReaction == pqPc \in {"returned", "thrown"}

Running == procState = "running"

\* process.exit(status)
Exit(status) ==
    /\ procState' = "exited"
    /\ exitStatus' = status

\* the top level logging the missing key and going on to main()
TopLevel_NoExit ==
    /\ Running
    /\ mainPc = "topLevel"
    /\ mainErrors' = IF ~apiKeySet THEN mainErrors + 1 ELSE mainErrors
    /\ mainPc' = "main"
    /\ UNCHANGED <<procState, exitStatus>>
    /\ UNCHANGED <<serverVars, envVars, connVars, mcpCalls, pqVars, chatVars,
                   directVars>>

\* main.ts, module top level: the ANTHROPIC_API_KEY check, then main()
TopLevel ==
    /\ Running
    /\ mainPc = "topLevel"
    /\ IF ~apiKeySet
       THEN /\ mainErrors' = mainErrors + 1
            /\ Exit(1)
            /\ UNCHANGED mainPc
       ELSE /\ mainPc' = "main"
            /\ UNCHANGED <<procState, exitStatus, mainErrors>>
    /\ UNCHANGED <<serverVars, envVars, connVars, mcpCalls, pqVars, chatVars,
                   directVars>>

\* main(): the argument check and the construction of the clients
MainStart ==
    /\ Running
    /\ mainPc = "main"
    /\ IF ~hasArg
       THEN /\ mainErrors' = mainErrors + 1
            /\ Exit(1)
            /\ UNCHANGED mainPc
       ELSE /\ mainPc' = "connectToServer"
            /\ UNCHANGED <<procState, exitStatus, mainErrors>>
    /\ UNCHANGED <<serverVars, envVars, connVars, mcpCalls, pqVars, chatVars,
                   directVars>>

\* connectToServer up to `await this.#mcp.connect(...)`, or to its catch;
\* connect starts the transport, which spawns the server subprocess
ConnectToServerCall ==
    /\ Running
    /\ mainPc = "connectToServer"
    /\ tools' = <<>>
    /\ LET cmd == getCommand(scriptPath)
       IN  IF cmd.threw
           THEN /\ connectLog' = connectLog + 1
                /\ mainPc' = "finallyAfterError"
                /\ UNCHANGED <<transport, mcpConn, spawned, mcpCalls>>
           ELSE /\ transport' = [created |-> TRUE, command |-> cmd.command,
                                 args |-> <<scriptPath>>]
                /\ mcpCalls' = [mcpCalls EXCEPT !.connect = @ + 1]
                /\ mcpConn' = "connecting"
                /\ spawned' = TRUE
                /\ mainPc' = "awaitConnect"
                /\ UNCHANGED connectLog
    /\ UNCHANGED <<serverVars, envVars, procState, exitStatus, mainErrors,
                   cleanupErrors, pqVars, chatVars, directVars>>

\* mcp.connect settles; on success listTools is called
ConnectSettles(ok) ==
    /\ Running
    /\ mainPc = "awaitConnect"
    /\ ~PendingReaction
    /\ IF ok
       THEN /\ mcpConn' = "connected"
            /\ mcpCalls' = [mcpCalls EXCEPT !.listTools = @ + 1]
            /\ mainPc' = "awaitListTools"
            /\ UNCHANGED connectLog
       ELSE /\ mcpConn' = "failed"
            /\ connectLog' = connectLog + 1
            /\ mainPc' = "finallyAfterError"
            /\ UNCHANGED mcpCalls
    /\ UNCHANGED <<serverVars, envVars, procState, exitStatus, mainErrors,
                   transport, spawned, tools, cleanupErrors, pqVars, chatVars,
                   directVars>>

\* mcp.listTools settles; on success #tools is replaced and
\* connectToServer returns
ListToolsSettles(ok, toolList) ==
    /\ Running
    /\ mainPc = "awaitListTools"
    /\ ~PendingReaction
    /\ IF ok
       THEN /\ tools' = toolList
            /\ mainPc' = "callChatLoop"
            /\ UNCHANGED connectLog
       ELSE /\ connectLog' = connectLog + 1
            /\ mainPc' = "finallyAfterError"
            /\ UNCHANGED tools
    /\ UNCHANGED <<serverVars, envVars, procState, exitStatus, mainErrors,
                   transport, mcpConn, spawned, cleanupErrors, mcpCalls,
                   pqVars, chatVars, directVars>>

\* main calls chatLoop(mcpClient) without awaiting the promise it returns:
\* chatLoop runs to its first `await rl.question(...)` and main goes on
ChatLoopCall ==
    /\ Running
    /\ mainPc = "callChatLoop"
    /\ rlOpen' = TRUE
    /\ chatPc' = "question"
    /\ mainPc' = "finally"
    /\ UNCHANGED <<serverVars, envVars, procState, exitStatus, mainErrors,
                   connVars, mcpCalls, pqVars, lines, queries, printed,
                   chatErrors, directVars>>

\* main's finally block: cleanup() calls mcp.close() and awaits it
MainFinally ==
    /\ Running
    /\ mainPc \in {"finally", "finallyAfterError"}
    /\ CleanupCall
    /\ mainPc' = IF mainPc = "finally" THEN "awaitClose"
                 ELSE "awaitCloseAfterError"
    /\ UNCHANGED <<serverVars, envVars, procState, exitStatus, mainErrors,
                   transport, spawned, tools, connectLog, cleanupErrors,
                   pqVars, chatVars, directVars>>

\* mcp.close() settles; cleanup logs and swallows a failure; main returns,
\* or rethrows the error of connectToServer
CloseSettles(ok) ==
    /\ Running
    /\ mainPc \in {"awaitClose", "awaitCloseAfterError"}
    /\ ~PendingReaction
    /\ mcpConn' = IF ok THEN "closed" ELSE "closeFailed"
    /\ cleanupErrors' = IF ok THEN cleanupErrors ELSE cleanupErrors + 1
    /\ mainPc' = IF mainPc = "awaitClose" THEN "returned" ELSE "rejected"
    /\ UNCHANGED <<serverVars, envVars, procState, exitStatus, mainErrors,
                   transport, spawned, tools, connectLog, mcpCalls, pqVars,
                   chatVars, directVars>>

\* main().catch(...): log and process.exit(1)
MainCatch ==
    /\ Running
    /\ mainPc = "rejected"
    /\ mainErrors' = mainErrors + 1
    /\ Exit(1)
    /\ UNCHANGED <<serverVars, envVars, mainPc, connVars, mcpCalls, pqVars,
                   chatVars, directVars>>

----------------------------------------------------------------------------
(* Chat client: ModelContextProtocolClient.processQuery *)

TextBlock(text) ==
    [type |-> "text", text |-> text, name |-> "", input |-> [state |-> ""]]
ToolUseBlock(name, input) ==
    [type |-> "tool_use", text |-> "", name |-> name, input |-> input]

\* content blocks of a model response
Blocks ==
    {TextBlock("Hello"), ToolUseBlock("get-alerts", [state |-> "CA"])}

\* response.content of a model response
ContentLists == SeqsUpTo(Blocks, MaxBlocks)

\* response.content of a follow-up model response
FollowUpLists == SeqsUpTo(Blocks, MaxFollowUpBlocks)

\* results of an MCP tool call
ToolCallResults == {[content |-> "No alerts found for CA."]}

\* JSON.stringify of a tool_use block's input
JSONstringify(input) == "{\"state\":\"" \o input.state \o "\"}"

CallingToolNotice(toolName, toolArgs) ==
    "[Calling tool " \o toolName \o " with arguments "
        \o JSONstringify(toolArgs) \o "]"

\* #resetFinalText
resetFinalText == <<>>

\* #resetToolResults
resetToolResults == <<>>

\* #getFinalText
getFinalText(texts) == JoinNL(texts)

\* processQuery's `for (const content of contents)` from block i on, up to
\* the next await inside processResponse or to the end of the list: text
\* blocks are pushed on the output, a tool_use block suspends the loop at
\* callTool, a block of any other type is skipped (Blocks holds none)
RECURSIVE RunLoop(_, _, _, _)
RunLoop(cs, i, texts, appended) ==
    IF i > Len(cs)
    THEN [pc |-> "returned", idx |-> i, texts |-> texts,
          appended |-> appended]
    ELSE IF cs[i].type = "text"
    THEN RunLoop(cs, i + 1, Append(texts, cs[i].text),
                 Append(appended, cs[i].text))
    ELSE IF cs[i].type = "tool_use"
    THEN [pc |-> "awaitTool", idx |-> i, texts |-> texts,
          appended |-> appended]
    ELSE RunLoop(cs, i + 1, texts, appended)

\* the loop goes on from block i: the variables at its next suspension
ContinueLoop(cs, i, texts, appended) ==
    LET r == RunLoop(cs, i, texts, appended)
    IN  /\ pqPc' = r.pc
        /\ idx' = r.idx
        /\ finalText' = r.texts
        /\ callAppended' = r.appended
        /\ callTools' = IF r.pc = "awaitTool" THEN callTools + 1
                        ELSE callTools
        /\ pqValue' = IF r.pc = "returned" THEN getFinalText(r.texts)
                      ELSE pqValue

\* processQuery without the two resets
ProcessQueryCall_NoReset(query, caller) ==
    /\ UNCHANGED <<toolResults, finalText>>
    /\ messages' = <<[role |-> "user", content |-> Str(query)]>>
    /\ llmRequests' = llmRequests + 1
    /\ pqPc' = "awaitModel"
    /\ pqCaller' = caller
    /\ contents' = <<>>
    /\ idx' = 0
    /\ pqValue' = ""
    /\ callAppended' = <<>>
    /\ callTools' = 0
    /\ callNotices' = 0
    /\ callFollowUps' = 0
    /\ callFollowTexts' = 0
    /\ callNested' = 0
    /\ staleCount' = Len(finalText)

\* processQuery(query) up to its first await: both buffers are reset and
\* the query is sent to the model
ProcessQueryCall(query, caller) ==
    /\ toolResults' = resetToolResults
    /\ finalText' = resetFinalText
    /\ messages' = <<[role |-> "user", content |-> Str(query)]>>
    /\ llmRequests' = llmRequests + 1
    /\ pqPc' = "awaitModel"
    /\ pqCaller' = caller
    /\ contents' = <<>>
    /\ idx' = 0
    /\ pqValue' = ""
    /\ callAppended' = <<>>
    /\ callTools' = 0
    /\ callNotices' = 0
    /\ callFollowUps' = 0
    /\ callFollowTexts' = 0
    /\ callNested' = 0
    /\ staleCount' = Len(finalText)

\* the first model request settles: it throws, or the loop over its
\* content blocks starts
ModelSettles(ok, cs) ==
    /\ Running
    /\ MainSuspended
    /\ pqPc = "awaitModel"
    /\ IF ok
       THEN /\ contents' = cs
            /\ ContinueLoop(cs, 1, finalText, callAppended)
       ELSE /\ pqPc' = "thrown"
            /\ UNCHANGED <<contents, idx, finalText, callAppended, callTools,
                           pqValue>>
    /\ UNCHANGED <<serverVars, envVars, mainVars, connVars, mcpCalls,
                   pqCaller, messages, llmRequests, callNotices,
                   callFollowUps, callFollowTexts, callNested, staleCount,
                   toolResults, chatVars, directVars>>

\* processResponse after `await this.#mcp.callTool(...)`: it throws, or the
\* result and the notice are recorded and the follow-up request is sent
ToolSettles(ok, result) ==
    /\ Running
    /\ MainSuspended
    /\ pqPc = "awaitTool"
    /\ IF ok
       THEN LET notice == CallingToolNotice(contents[idx].name,
                                            contents[idx].input)
            IN  /\ toolResults' = Append(toolResults, result)
                /\ finalText' = Append(finalText, notice)
                /\ callAppended' = Append(callAppended, notice)
                /\ callNotices' = callNotices + 1
                /\ messages' = Append(messages, [role |-> "user",
                                                 content |-> result.content])
                /\ llmRequests' = llmRequests + 1
                /\ callFollowUps' = callFollowUps + 1
                /\ pqPc' = "awaitFollowUp"
       ELSE /\ pqPc' = "thrown"
            /\ UNCHANGED <<toolResults, finalText, callAppended, callNotices,
                           messages, llmRequests, callFollowUps>>
    /\ UNCHANGED <<serverVars, envVars, mainVars, connVars, mcpCalls,
                   pqCaller, contents, idx, pqValue, callTools,
                   callFollowTexts, callNested, staleCount, chatVars,
                   directVars>>

\* processResponse handing a follow-up tool_use block to itself: the tool
\* of the block is called again
FollowUpSettles_Recursive(ok, newContent) ==
    /\ Running
    /\ MainSuspended
    /\ pqPc = "awaitFollowUp"
    /\ IF ok /\ Len(newContent) > 0
       THEN IF newContent[1].type = "tool_use"
            THEN /\ callTools' = callTools + 1
                 /\ callNested' = callNested + 1
                 /\ pqPc' = "awaitTool"
                 /\ UNCHANGED <<idx, finalText, callAppended, pqValue,
                                callFollowTexts>>
            ELSE LET text == IF newContent[1].type = "text"
                             THEN newContent[1].text ELSE ""
                 IN  /\ callFollowTexts' = callFollowTexts + 1
                     /\ UNCHANGED callNested
                     /\ ContinueLoop(contents, idx + 1,
                                     Append(finalText, text),
                                     Append(callAppended, text))
       ELSE /\ pqPc' = "thrown"
            /\ UNCHANGED <<idx, finalText, callAppended, callTools, pqValue,
                           callFollowTexts, callNested>>
    /\ UNCHANGED <<serverVars, envVars, mainVars, connVars, mcpCalls,
                   pqCaller, messages, contents, llmRequests, callNotices,
                   callFollowUps, staleCount, toolResults, chatVars,
                   directVars>>

\* processResponse after the follow-up `await this.createModelMessage(...)`:
\* the request throws, or newContent[0] does not exist (a TypeError), or
\* the text of newContent[0] ("" when it is no text block) is pushed and
\* the loop of processQuery goes on with the next block
FollowUpSettles(ok, newContent) ==
    /\ Running
    /\ MainSuspended
    /\ pqPc = "awaitFollowUp"
    /\ IF ok /\ Len(newContent) > 0
       THEN LET text == IF newContent[1].type = "text"
                        THEN newContent[1].text ELSE ""
            IN  /\ callFollowTexts' = callFollowTexts + 1
                /\ callNested' = IF newContent[1].type = "tool_use"
                                 THEN callNested + 1 ELSE callNested
                /\ ContinueLoop(contents, idx + 1, Append(finalText, text),
                                Append(callAppended, text))
       ELSE /\ pqPc' = "thrown"
            /\ UNCHANGED <<idx, finalText, callAppended, callTools, pqValue,
                           callFollowTexts, callNested>>
    /\ UNCHANGED <<serverVars, envVars, mainVars, connVars, mcpCalls,
                   pqCaller, messages, contents, llmRequests, callNotices,
                   callFollowUps, staleCount, toolResults, chatVars,
                   directVars>>

\* the call is over: its local variables, its result and the bookkeeping of
\* the call are gone, the instance fields stay
ProcessQueryOver ==
    /\ pqPc' = "idle"
    /\ messages' = <<>>
    /\ contents' = <<>>
    /\ idx' = 0
    /\ pqValue' = ""
    /\ callAppended' = <<>>
    /\ callTools' = 0
    /\ callNotices' = 0
    /\ callFollowUps' = 0
    /\ callFollowTexts' = 0
    /\ callNested' = 0
    /\ staleCount' = 0
    /\ UNCHANGED <<pqCaller, llmRequests, finalText, toolResults>>

----------------------------------------------------------------------------
(* Chat client: chatLoop *)

\* lines typed on stdin
ChatInputs ==
    {<<"q", "u", "i", "t">>, <<"Q", "u", "I", "T">>, <<>>,
     <<"q", "u", "i", "t", "s">>}

\* the comparison without toLowerCase
IsQuit_CaseSensitive(message) == message = <<"q", "u", "i", "t">>

IsQuit(message) == toLowerCase(message) = <<"q", "u", "i", "t">>

\* rl.question resolves with a line: "quit" breaks the loop (the finally
\* block closes readline), any other line is handed to processQuery
ChatReadLine(message) ==
    /\ Running
    /\ MainSuspended
    /\ ~PendingReaction
    /\ chatPc = "question"
    /\ Len(lines) < MaxLines
    /\ lines' = Append(lines, message)
    /\ IF IsQuit(message)
       THEN /\ chatPc' = "done"
            /\ rlOpen' = FALSE
            /\ UNCHANGED <<queries, pqVars>>
       ELSE /\ chatPc' = "inQuery"
            /\ queries' = Append(queries, message)
            /\ ProcessQueryCall(message, "chatLoop")
            /\ UNCHANGED rlOpen
    /\ UNCHANGED <<serverVars, envVars, mainVars, connVars, mcpCalls,
                   printed, chatErrors, directVars>>

\* processQuery returned: the response is printed and the next question
\* is asked
ChatQueryReturned ==
    /\ Running
    /\ pqPc = "returned"
    /\ pqCaller = "chatLoop"
    /\ printed' = printed + 1
    /\ chatPc' = "question"
    /\ ProcessQueryOver
    /\ UNCHANGED <<serverVars, envVars, mainVars, connVars, mcpCalls,
                   rlOpen, lines, queries, chatErrors, directVars>>

\* chatLoop with try/finally only: the error leaves chatLoop, whose promise
\* nobody awaits, and Node ends the process on the unhandled rejection
ChatQueryThrew_Uncaught ==
    /\ Running
    /\ pqPc = "thrown"
    /\ pqCaller = "chatLoop"
    /\ rlOpen' = FALSE
    /\ chatPc' = "done"
    /\ Exit(1)
    /\ ProcessQueryOver
    /\ UNCHANGED <<serverVars, envVars, mainPc, mainErrors, connVars,
                   mcpCalls, lines, queries, printed, chatErrors, directVars>>

\* processQuery threw: chatLoop's catch logs the error, its finally closes
\* readline, and chatLoop returns
ChatQueryThrew ==
    /\ Running
    /\ pqPc = "thrown"
    /\ pqCaller = "chatLoop"
    /\ chatErrors' = chatErrors + 1
    /\ rlOpen' = FALSE
    /\ chatPc' = "done"
    /\ ProcessQueryOver
    /\ UNCHANGED <<serverVars, envVars, mainVars, connVars, mcpCalls,
                   lines, queries, printed, directVars>>

----------------------------------------------------------------------------
(* A caller that uses a connected client as the class's @example does:     *)
(* processQuery calls one after the other, each awaited.                   *)

DirectCall(query) ==
    /\ mainPc = "none"
    /\ pqPc = "idle"
    /\ directCalls < MaxCalls
    /\ directCalls' = directCalls + 1
    /\ ProcessQueryCall(query, "direct")
    /\ UNCHANGED <<serverVars, envVars, mainVars, connVars, mcpCalls,
                   chatVars, directFailed>>

DirectReturned ==
    /\ pqPc = "returned"
    /\ pqCaller = "direct"
    /\ ProcessQueryOver
    /\ UNCHANGED <<serverVars, envVars, mainVars, connVars, mcpCalls,
                   chatVars, directVars>>

DirectThrew ==
    /\ pqPc = "thrown"
    /\ pqCaller = "direct"
    /\ directFailed' = directFailed + 1
    /\ ProcessQueryOver
    /\ UNCHANGED <<serverVars, envVars, mainVars, connVars, mcpCalls,
                   chatVars, directCalls>>

----------------------------------------------------------------------------
(* Specifications *)

PqInitVars ==
    /\ pqPc = "idle"
    /\ pqCaller = "chatLoop"
    /\ messages = <<>>
    /\ contents = <<>>
    /\ idx = 0
    /\ pqValue = ""
    /\ llmRequests = 0
    /\ callAppended = <<>>
    /\ callTools = 0
    /\ callNotices = 0
    /\ callFollowUps = 0
    /\ callFollowTexts = 0
    /\ callNested = 0
    /\ staleCount = 0
    /\ finalText = <<>>
    /\ toolResults = <<>>

ChatInitVars ==
    /\ chatPc = "notStarted"
    /\ rlOpen = FALSE
    /\ lines = <<>>
    /\ queries = <<>>
    /\ printed = 0
    /\ chatErrors = 0

\* the client process at its start, in any environment
ClientInitVars ==
    /\ apiKeySet \in BOOLEAN
    /\ hasArg \in BOOLEAN
    /\ scriptPath \in ScriptPaths
    /\ platform \in Platforms
    /\ mainPc = "topLevel"
    /\ procState = "running"
    /\ exitStatus = 0
    /\ mainErrors = 0
    /\ transport = NoTransport
    /\ mcpConn = "new"
    /\ spawned = FALSE
    /\ mcpCalls = [connect |-> 0, listTools |-> 0, close |-> 0]
    /\ tools = <<>>
    /\ connectLog = 0
    /\ cleanupErrors = 0
    /\ PqInitVars
    /\ ChatInitVars
    /\ directCalls = 0
    /\ directFailed = 0

\* a constructed client that connectToServer has connected, outside main()
ConnectedInitVars ==
    /\ apiKeySet = TRUE
    /\ hasArg = TRUE
    /\ scriptPath \in {p \in ScriptPaths : ~validateServerScript(p)}
    /\ platform \in Platforms
    /\ mainPc = "none"
    /\ procState = "running"
    /\ exitStatus = 0
    /\ mainErrors = 0
    /\ transport = [created |-> TRUE,
                    command |-> getCommand(scriptPath).command,
                    args |-> <<scriptPath>>]
    /\ mcpConn = "connected"
    /\ spawned = TRUE
    /\ mcpCalls = [connect |-> 1, listTools |-> 1, close |-> 0]
    /\ tools \in ToolLists
    /\ connectLog = 0
    /\ cleanupErrors = 0
    /\ PqInitVars
    /\ ChatInitVars
    /\ directCalls = 0
    /\ directFailed = 0

\* the client program: main.ts
Init == ServerInitVars /\ ClientInitVars

Next ==
    \/ TopLevel
    \/ MainStart
    \/ ConnectToServerCall
    \/ \E ok \in BOOLEAN : ConnectSettles(ok)
    \/ \E ok \in BOOLEAN, toolList \in ToolLists : ListToolsSettles(ok, toolList)
    \/ ChatLoopCall
    \/ MainFinally
    \/ \E ok \in BOOLEAN : CloseSettles(ok)
    \/ MainCatch
    \/ \E message \in ChatInputs : ChatReadLine(message)
    \/ \E ok \in BOOLEAN, cs \in ContentLists : ModelSettles(ok, cs)
    \/ \E ok \in BOOLEAN, result \in ToolCallResults : ToolSettles(ok, result)
    \/ \E ok \in BOOLEAN, cs \in FollowUpLists : FollowUpSettles(ok, cs)
    \/ ChatQueryReturned
    \/ ChatQueryThrew

Spec == Init /\ [][Next]_vars

\* the client class under a sequential caller
ClientInit == ServerInitVars /\ ConnectedInitVars

ClientNext ==
    \/ \E query \in ChatInputs : DirectCall(query)
    \/ \E ok \in BOOLEAN, cs \in ContentLists : ModelSettles(ok, cs)
    \/ \E ok \in BOOLEAN, result \in ToolCallResults : ToolSettles(ok, result)
    \/ \E ok \in BOOLEAN, cs \in FollowUpLists : FollowUpSettles(ok, cs)
    \/ DirectReturned
    \/ DirectThrew

ClientSpec == ClientInit /\ [][ClientNext]_vars

\* the weather server: the get-alerts tool
ServerInit ==
    /\ ServerInitVars
    /\ ClientInitVars
    /\ apiKeySet /\ hasArg /\ platform = "linux"
    /\ scriptPath = <<"s", ".", "j", "s">>

ServerNext ==
    \/ \E state \in StateArgs : GetAlertsCall(state)
    \/ \E outcome \in Outcomes : FetchSettles(outcome)
    \/ HandlerDone

ServerSpec == ServerInit /\ [][ServerNext]_vars

----------------------------------------------------------------------------
(* Properties of the weather server (ServerSpec) *)

\* the state code the handler is to use, written out for every argument
ExpectedStateCode ==
    CASE hState = <<"c", "a">> -> "CA"
      [] hState = <<"C", "A">> -> "CA"
      [] hState = <<"N", "y">> -> "NY"
      [] hState = <<"t", "9">> -> "T9"
      [] OTHER -> ""

HandlerEnded == hPc \in {"returned", "threw"}

\* the remote call failed: fetch rejected or the status is not 2xx
RemoteCallFailed ==
    \/ hOutcome.kind = "networkError"
    \/ /\ hOutcome.kind = "response"
       /\ hOutcome.status \notin 200..299

\* the remote call succeeded with a JSON object
RemoteCallGaveObject ==
    /\ hOutcome.kind = "response"
    /\ hOutcome.status \in 200..299
    /\ hOutcome.json = "object"

\* C4: whenever the remote call of a get-alerts invocation fails (a non-2xx
\* status or a network error), the handler returns (no exception escapes)
\* a content list of exactly one text entry, the failure sentence for the
\* uppercased state code, after exactly one HTTP request.
C4_FailureSentence ==
    (HandlerEnded /\ RemoteCallFailed) =>
        /\ hPc = "returned"
        /\ hFetches = 1
        /\ Len(hResult.content) = 1
        /\ hResult.content[1].type = "text"
        /\ hResult.content[1].text =
               <<"Failed to fetch alerts for " \o ExpectedStateCode
                   \o ". Please try another state.">>

\* C4, witness: a 404 answer for state "Ny" has produced the failure sentence
\* for NY.
C4_Witness ==
    /\ hPc = "returned"
    /\ hOutcome.kind = "response"
    /\ hOutcome.status = 404
    /\ hState = <<"N", "y">>
    /\ hLogged = 1
    /\ hResult.content[1].text =
           <<"Failed to fetch alerts for NY. Please try another state.">>

\* the line of a block for one optional property
ExpectedLine(label, value, default) ==
    IF value \in {Absent, ""} THEN label \o default ELSE label \o value

\* C5: for a successful response with N >= 1 features the returned text is
\* the header, an empty line, and exactly N blocks of six lines in the order
\* of the features, each ending with the line "---", an absent or empty
\* property rendered as "Unknown" (event, area, severity, status) or
\* "No headline" (headline).
C5_FormattedBlocks ==
    (/\ HandlerEnded
     /\ RemoteCallGaveObject
     /\ hOutcome.hasFeatures
     /\ Len(hOutcome.features) >= 1) =>
        LET n == Len(hOutcome.features)
            text == hResult.content[1].text
        IN  /\ hPc = "returned"
            /\ Len(hResult.content) = 1
            /\ Len(text) = 2 + 6 * n
            /\ text[1] = "Active alerts for " \o ExpectedStateCode \o ":"
            /\ text[2] = ""
            /\ Cardinality({i \in DOMAIN text : text[i] = "---"}) = n
            /\ \A k \in 1..n :
                 LET f == hOutcome.features[k]
                     at == 2 + 6 * (k - 1)
                 IN  /\ text[at + 1] = ExpectedLine("Event: ", f.event, "Unknown")
                     /\ text[at + 2] = ExpectedLine("Area: ", f.areaDesc, "Unknown")
                     /\ text[at + 3] =
                            ExpectedLine("Severity: ", f.severity, "Unknown")
                     /\ text[at + 4] = ExpectedLine("Status: ", f.status, "Unknown")
                     /\ text[at + 5] =
                            ExpectedLine("Headline: ", f.headline, "No headline")
                     /\ text[at + 6] = "---"

\* C5, witness: two features, the first without headline, the second with
\* every property empty, have been formatted for state "ca".
C5_Witness ==
    /\ hPc = "returned"
    /\ hOutcome.status = 200
    /\ hState = <<"c", "a">>
    /\ Len(hOutcome.features) = 2
    /\ hOutcome.features[1] =
           [event |-> "Storm", areaDesc |-> "Storm", severity |-> "Storm",
            status |-> "Storm", headline |-> Absent]
    /\ hOutcome.features[2] =
           [event |-> "", areaDesc |-> "", severity |-> "", status |-> "",
            headline |-> ""]
    /\ hResult.content[1].text =
           <<"Active alerts for CA:", "",
             "Event: Storm", "Area: Storm", "Severity: Storm",
             "Status: Storm", "Headline: No headline", "---",
             "Event: Unknown", "Area: Unknown", "Severity: Unknown",
             "Status: Unknown", "Headline: No headline", "---">>

----------------------------------------------------------------------------
(* Properties of the client program (Spec) *)

\* processQuery has thrown and chatLoop, which awaits it, has not run yet
QueryFailedInChat == pqPc = "thrown" /\ pqCaller = "chatLoop"

\* C1, as claimed: when the LLM request or the MCP tool call of a query
\* fails, the failure becomes a text that is printed, and the chat loop
\* prompts for the next query.
C1_FailureBecomesText ==
    [][QueryFailedInChat =>
          (chatPc' = "question" /\ printed' = printed + 1)]_vars

\* C1, amended: when the LLM request or the MCP tool call of a query fails,
\* the error reaches chatLoop's catch, which logs it once; nothing is
\* printed for the query, readline is closed, the chat loop ends and reads
\* no further line; the process keeps running (no crash).
C1_FailureEndsChatLoop ==
    /\ [][QueryFailedInChat =>
             /\ chatErrors' = chatErrors + 1
             /\ printed' = printed
             /\ chatPc' = "done"
             /\ ~rlOpen'
             /\ lines' = lines
             /\ procState' = "running"]_vars
    /\ [][chatPc = "done" =>
             (chatPc' = "done" /\ lines' = lines /\ queries' = queries
              /\ llmRequests' = llmRequests)]_vars

\* C1, witness: the tool call of the first query failed after "Hello" was
\* pushed: the error is logged and the chat loop is over.
C1_Witness ==
    /\ chatErrors = 1
    /\ chatPc = "done"
    /\ ~rlOpen
    /\ Len(lines) = 1
    /\ Len(queries) = 1
    /\ llmRequests = 1
    /\ finalText = <<"Hello">>
    /\ printed = 0
    /\ procState = "running"

\* C2, as claimed: once connectToServer has succeeded, mcp.close() is not
\* called before the chat loop has ended: whenever close has been called
\* and the chat loop was started, the chat loop is over (it is neither
\* waiting for a line nor processing a query).
C2_CleanupAfterChatLoop ==
    (mcpCalls.close > 0 /\ chatPc # "notStarted") => chatPc = "done"

ToolUseCount(cs) == Cardinality({i \in DOMAIN cs : cs[i].type = "tool_use"})
TextCount(cs) == Cardinality({i \in DOMAIN cs : cs[i].type = "text"})

\* tool_use blocks of the first response that the loop has reached
ToolUseReached ==
    Cardinality({i \in DOMAIN contents :
                    i <= idx /\ contents[i].type = "tool_use"})

\* entries of the output that are "[Calling tool ...]" notices
NoticeEntries ==
    Cardinality({i \in DOMAIN finalText :
                    finalText[i] =
                      "[Calling tool get-alerts with arguments {\"state\":\"CA\"}]"})

InCall ==
    pqPc \in {"awaitModel", "awaitTool", "awaitFollowUp", "returned", "thrown"}

QuitLines == {<<"q", "u", "i", "t">>, <<"Q", "u", "I", "T">>}

NotQuitLine(message) == message \notin QuitLines

\* C7: the lines handed to processQuery are exactly the lines read that are
\* not "quit" (case-insensitively), in order, the empty line included; a
\* quit line is the last line read and ends the loop.
C7_QuitEndsLoop ==
    /\ queries = SelectSeq(lines, NotQuitLine)
    /\ \A i \in DOMAIN lines :
           lines[i] \in QuitLines =>
               /\ i = Len(lines)
               /\ chatPc = "done"
               /\ ~rlOpen
               /\ pqPc = "idle"

\* C7, witness: the empty line was forwarded and answered, then "QuIT" ended
\* the loop.
C7_Witness ==
    /\ lines = << <<>>, <<"Q", "u", "I", "T">> >>
    /\ queries = << <<>> >>
    /\ chatPc = "done"
    /\ printed = 1

\* the script paths that end in neither ".js" nor ".py", written out
InvalidScriptPaths ==
    {<<"s", ".", "s", "h">>, <<"j", "s">>, <<"s", ".", "J", "S">>,
     <<".", "p", "y", "c">>}

ConnectToServerCalled == mainPc \notin {"topLevel", "main", "connectToServer"}

\* C8: for a script path ending in neither ".js" nor ".py", once
\* connectToServer has been called it has failed: the error is logged and
\* rethrown to main, no transport was created, no subprocess spawned, and
\* neither connect nor listTools was called.
C8_InvalidScriptFailsEarly ==
    (scriptPath \in InvalidScriptPaths) =>
        /\ ~transport.created
        /\ ~spawned
        /\ mcpCalls.connect = 0
        /\ mcpCalls.listTools = 0
        /\ mcpConn \notin {"connecting", "connected"}
        /\ (ConnectToServerCalled =>
              /\ connectLog = 1
              /\ mainPc \in {"finallyAfterError", "awaitCloseAfterError",
                             "rejected"})

\* C8, witness: connectToServer has thrown for "s.sh" and main is in its
\* finally block.
C8_Witness ==
    /\ scriptPath = <<"s", ".", "s", "h">>
    /\ mainPc = "awaitCloseAfterError"
    /\ connectLog = 1
    /\ ~transport.created
    /\ ~spawned

ConfigurationFailure ==
    \/ ~apiKeySet
    \/ ~hasArg
    \/ scriptPath \in InvalidScriptPaths

\* C9: with a missing API key, a missing argument or an invalid script
\* extension the chat loop is never started and no request is sent to the
\* model; the process goes on until it exits, and it exits with status 1.
C9_ConfigurationFailureFatal ==
    ConfigurationFailure =>
        /\ chatPc = "notStarted"
        /\ llmRequests = 0
        /\ lines = <<>>
        /\ (procState = "exited" => exitStatus = 1)
        /\ (procState = "running" => ENABLED Next)

\* C9, witness: with key and argument present, the invalid extension has led
\* to process.exit(1).
C9_Witness ==
    /\ apiKeySet
    /\ hasArg
    /\ scriptPath = <<"s", ".", "s", "h">>
    /\ procState = "exited"
    /\ exitStatus = 1
    /\ mainErrors = 1

----------------------------------------------------------------------------
(* Properties of the client class under sequential calls (ClientSpec) *)

\* C10: in every processQuery call the output buffer holds exactly the
\* entries pushed by this call, the tool-result buffer exactly the results
\* of this call, and the string returned is the newline-join of the entries
\* pushed by this call, whatever earlier calls (failed ones included) left.
C10_BuffersResetPerCall ==
    InCall =>
        /\ finalText = callAppended
        /\ Len(toolResults) = callNotices
        /\ (pqPc = "returned" => pqValue = JoinNL(callAppended))

\* C10, witness: the second call, made after a call that threw and left
\* entries behind, has returned its own three entries.
C10_Witness ==
    /\ pqPc = "returned"
    /\ directCalls = 2
    /\ directFailed = 1
    /\ staleCount > 0
    /\ callAppended =
           <<"Hello",
             "[Calling tool get-alerts with arguments {\"state\":\"CA\"}]",
             "">>
    /\ pqValue =
           "Hello\n[Calling tool get-alerts with arguments {\"state\":\"CA\"}]\n"

============================================================================
